---- MODULE Spec2Model ----
(***************************************************************************)
(* Model of the financial advisor's RAG orchestration core: the scenario   *)
(* classifier (FinancialService._detect_financial_scenario), the           *)
(* calculator dispatch, RAGEngine.query with its conversation memory, and  *)
(* the callers (UI sessions, API callers) that share the one engine that   *)
(* main() constructs.                                                      *)
(***************************************************************************)
EXTENDS Integers, Sequences, FiniteSets, TLC

(***************************************************************************)
(* Bounds of the model.                                                    *)
(***************************************************************************)
\* Largest number of messages the conversation memory is allowed to reach;
\* a new operation is started only if all operations in flight still fit.
MaxMem == 8
\* Largest number of messages in the memory that were recorded by
\* _update_scenario_history.
MaxNotes == 1
\* Largest number of vocabulary pieces concatenated into a classifier query.
MaxPieces == 2
\* Largest amount of money handed to a calculator that is called on its own.
MaxAmount == 2

(***************************************************************************)
(* Text.  Python strings are sequences of one-character strings.           *)
(***************************************************************************)
UpperCase ==
  <<"A","B","C","D","E","F","G","H","I","J","K","L","M",
    "N","O","P","Q","R","S","T","U","V","W","X","Y","Z">>
LowerCase ==
  <<"a","b","c","d","e","f","g","h","i","j","k","l","m",
    "n","o","p","q","r","s","t","u","v","w","x","y","z">>

\* str.lower() on one character.
LowerChar(c) ==
  IF \E i \in 1..26 : UpperCase[i] = c
  THEN LowerCase[CHOOSE i \in 1..26 : UpperCase[i] = c]
  ELSE c

\* str.lower()
Lower(s) == [i \in 1..Len(s) |-> LowerChar(s[i])]

\* Python's `keyword in text` on strings: substring test.
Contains(text, keyword) ==
  \E i \in 0..(Len(text) - Len(keyword)) :
     SubSeq(text, i + 1, i + Len(keyword)) = keyword

(***************************************************************************)
(* Scenario classifier.                                                    *)
(***************************************************************************)
\* The keyword table in its insertion order.  The last entry of the source
\* table maps to a nested dictionary; iterating a dictionary yields its keys,
\* so the strings tested for that entry are the twelve sub-scenario names.
scenario_keywords ==
  <<
    [scenario |-> "retirement", keywords |-> <<
        <<"r","e","t","i","r","e">>,
        <<"r","e","t","i","r","e","m","e","n","t">>,
        <<"p","e","n","s","i","o","n">>,
        <<"4","0","1","k">>,
        <<"i","r","a">>,
        <<"s","o","c","i","a","l"," ","s","e","c","u","r","i","t","y">>>>],
    [scenario |-> "investment", keywords |-> <<
        <<"i","n","v","e","s","t">>,
        <<"p","o","r","t","f","o","l","i","o">>,
        <<"s","t","o","c","k","s">>,
        <<"b","o","n","d","s">>,
        <<"m","a","r","k","e","t">>,
        <<"r","e","t","u","r","n","s">>>>],
    [scenario |-> "debt", keywords |-> <<
        <<"d","e","b","t">>,
        <<"l","o","a","n">>,
        <<"m","o","r","t","g","a","g","e">>,
        <<"c","r","e","d","i","t">>,
        <<"p","a","y","m","e","n","t">>,
        <<"i","n","t","e","r","e","s","t">>>>],
    [scenario |-> "estate_planning", keywords |-> <<
        <<"e","s","t","a","t","e">>,
        <<"w","i","l","l">>,
        <<"t","r","u","s","t">>,
        <<"i","n","h","e","r","i","t","a","n","c","e">>,
        <<"b","e","n","e","f","i","c","i","a","r","y">>>>],
    [scenario |-> "tax_planning", keywords |-> <<
        <<"t","a","x">>,
        <<"d","e","d","u","c","t","i","o","n">>,
        <<"c","r","e","d","i","t">>,
        <<"w","r","i","t","e","-","o","f","f">>,
        <<"i","r","a">>,
        <<"f","i","l","i","n","g">>>>],
    [scenario |-> "insurance", keywords |-> <<
        <<"i","n","s","u","r","a","n","c","e">>,
        <<"c","o","v","e","r","a","g","e">>,
        <<"p","o","l","i","c","y">>,
        <<"p","r","e","m","i","u","m">>,
        <<"c","l","a","i","m">>,
        <<"r","i","s","k">>>>],
    [scenario |-> "business_finance", keywords |-> <<
        <<"b","u","s","i","n","e","s","s">>,
        <<"c","o","m","p","a","n","y">>,
        <<"r","e","v","e","n","u","e">>,
        <<"p","r","o","f","i","t">>,
        <<"s","t","a","r","t","u","p">>>>],
    [scenario |-> "real_estate", keywords |-> <<
        <<"p","r","o","p","e","r","t","y">>,
        <<"r","e","a","l"," ","e","s","t","a","t","e">>,
        <<"m","o","r","t","g","a","g","e">>,
        <<"r","e","n","t">>,
        <<"h","o","u","s","i","n","g">>>>],
    [scenario |-> "tax_calculation_scenarios", keywords |-> <<
        <<"s","a","l","a","r","y","_","i","n","c","o","m","e">>,
        <<"i","n","v","e","s","t","m","e","n","t","_","i","n","c","o","m","e">>,
        <<"b","u","s","i","n","e","s","s","_","i","n","c","o","m","e">>,
        <<"r","e","n","t","a","l","_","i","n","c","o","m","e">>,
        <<"r","e","t","i","r","e","m","e","n","t","_","i","n","c","o","m","e">>,
        <<"d","e","d","u","c","t","i","o","n","s">>,
        <<"h","o","m","e","_","l","o","a","n","_","i","n","t","e","r","e","s","t">>,
        <<"c","a","p","i","t","a","l","_","g","a","i","n","s">>,
        <<"f","o","r","e","i","g","n","_","i","n","c","o","m","e">>,
        <<"t","a","x","_","c","o","m","p","l","i","a","n","c","e">>,
        <<"r","e","b","a","t","e","s","_","a","n","d","_","c","r","e","d","i","t","s">>,
        <<"i","n","h","e","r","i","t","a","n","c","e","_","t","a","x">>>>]
  >>

tax_calculation_keyword_lists ==
  <<
    <<<<"s","a","l","a","r","y">>, <<"b","a","s","i","c"," ","p","a","y">>, <<"H","R","A">>, <<"a","l","l","o","w","a","n","c","e">>, <<"b","o","n","u","s">>, <<"g","r","a","t","u","i","t","y">>>>,
    <<<<"i","n","v","e","s","t","m","e","n","t">>, <<"i","n","t","e","r","e","s","t"," ","i","n","c","o","m","e">>, <<"d","i","v","i","d","e","n","d","s">>, <<"c","a","p","i","t","a","l"," ","g","a","i","n","s">>, <<"F","D">>, <<"m","u","t","u","a","l"," ","f","u","n","d","s">>, <<"s","t","o","c","k","s">>>>,
    <<<<"b","u","s","i","n","e","s","s"," ","i","n","c","o","m","e">>, <<"p","r","o","f","i","t","s">>, <<"t","u","r","n","o","v","e","r">>, <<"r","e","v","e","n","u","e">>, <<"f","r","e","e","l","a","n","c","e">>, <<"c","o","n","s","u","l","t","a","n","t">>>>,
    <<<<"r","e","n","t","a","l"," ","i","n","c","o","m","e">>, <<"p","r","o","p","e","r","t","y"," ","r","e","n","t">>, <<"h","o","u","s","e"," ","p","r","o","p","e","r","t","y">>, <<"t","e","n","a","n","t">>, <<"r","e","a","l"," ","e","s","t","a","t","e"," ","i","n","c","o","m","e">>>>,
    <<<<"p","e","n","s","i","o","n"," ","i","n","c","o","m","e">>, <<"r","e","t","i","r","e","m","e","n","t"," ","b","e","n","e","f","i","t","s">>, <<"s","e","n","i","o","r"," ","c","i","t","i","z","e","n"," ","i","n","c","o","m","e">>, <<"E","P","F">>, <<"N","P","S">>, <<"s","u","p","e","r","a","n","n","u","a","t","i","o","n">>>>,
    <<<<"t","a","x"," ","d","e","d","u","c","t","i","o","n">>, <<"s","e","c","t","i","o","n"," ","8","0","C">>, <<"s","e","c","t","i","o","n"," ","8","0","D">>, <<"s","e","c","t","i","o","n"," ","8","0","G">>, <<"P","P","F">>, <<"i","n","s","u","r","a","n","c","e"," ","p","r","e","m","i","u","m">>, <<"c","h","a","r","i","t","y"," ","d","o","n","a","t","i","o","n","s">>>>,
    <<<<"h","o","m","e"," ","l","o","a","n"," ","i","n","t","e","r","e","s","t">>, <<"h","o","u","s","i","n","g"," ","l","o","a","n"," ","i","n","t","e","r","e","s","t">>, <<"m","o","r","t","g","a","g","e">>, <<"p","r","o","p","e","r","t","y"," ","p","u","r","c","h","a","s","e">>, <<"s","e","c","t","i","o","n"," ","2","4">>>>,
    <<<<"c","a","p","i","t","a","l"," ","g","a","i","n","s">>, <<"s","h","o","r","t","-","t","e","r","m"," ","g","a","i","n">>, <<"l","o","n","g","-","t","e","r","m"," ","g","a","i","n">>, <<"i","n","d","e","x","e","d"," ","g","a","i","n">>, <<"s","a","l","e"," ","o","f"," ","a","s","s","e","t","s">>, <<"p","r","o","p","e","r","t","y"," ","s","a","l","e">>>>,
    <<<<"f","o","r","e","i","g","n"," ","i","n","c","o","m","e">>, <<"N","R","I"," ","i","n","c","o","m","e">>, <<"o","v","e","r","s","e","a","s"," ","i","n","c","o","m","e">>, <<"g","l","o","b","a","l"," ","i","n","c","o","m","e">>, <<"D","T","A","A">>, <<"f","o","r","e","i","g","n"," ","r","e","m","i","t","t","a","n","c","e">>>>,
    <<<<"i","n","c","o","m","e"," ","t","a","x"," ","f","i","l","i","n","g">>, <<"I","T","R">>, <<"t","a","x"," ","c","o","m","p","l","i","a","n","c","e">>, <<"f","o","r","m"," ","s","u","b","m","i","s","s","i","o","n">>, <<"f","i","l","i","n","g"," ","d","e","a","d","l","i","n","e">>>>,
    <<<<"r","e","b","a","t","e">>, <<"s","e","c","t","i","o","n"," ","8","7","A">>, <<"t","a","x"," ","c","r","e","d","i","t">>, <<"t","a","x"," ","r","e","l","i","e","f">>, <<"s","u","r","c","h","a","r","g","e">>, <<"h","e","a","l","t","h"," ","a","n","d"," ","e","d","u","c","a","t","i","o","n"," ","c","e","s","s">>>>,
    <<<<"i","n","h","e","r","i","t","a","n","c","e">>, <<"g","i","f","t"," ","t","a","x">>, <<"w","e","a","l","t","h"," ","t","r","a","n","s","f","e","r">>, <<"e","s","t","a","t","e"," ","p","l","a","n","n","i","n","g">>, <<"p","r","o","p","e","r","t","y"," ","i","n","h","e","r","i","t","a","n","c","e">>>>
  >>

\* The loop of _detect_financial_scenario from table entry i on: the first
\* entry with a keyword inside the lower-cased query is returned.
RECURSIVE DetectFrom(_, _)
DetectFrom(query_lower, i) ==
  IF i > Len(scenario_keywords) THEN "general"
  ELSE IF \E j \in 1..Len(scenario_keywords[i].keywords) :
             Contains(query_lower, scenario_keywords[i].keywords[j])
       THEN scenario_keywords[i].scenario
       ELSE DetectFrom(query_lower, i + 1)

\* Variant of DetectFinancialScenario: the query is not lower-cased.
DetectFinancialScenarioCaseSensitive(query) == DetectFrom(query, 1)

\* FinancialService._detect_financial_scenario
DetectFinancialScenario(query) == DetectFrom(Lower(query), 1)

\* Queries for the classifier: up to MaxPieces pieces of this vocabulary,
\* written one after the other.
Vocabulary ==
  {<<"R","e","t","i","r","e">>, <<"m","o","r","t","g","a","g","e">>,
   <<"r","e","a","l"," ","e","s","t","a","t","e">>,
   <<"s","a","l","a","r","y">>,
   <<"c","a","p","i","t","a","l","_","g","a","i","n","s">>,
   <<"I","R","A">>, <<"r","e","n","t">>, <<"t","a","x">>, <<"H","R","A">>,
   <<"p","r","o","p","e","r","t","y">>, <<" ">>, <<"x">>}

RECURSIVE QueriesOf(_)
QueriesOf(n) ==
  IF n = 0 THEN {<<>>}
  ELSE LET shorter == QueriesOf(n - 1)
       IN  shorter \cup {q \o p : q \in shorter, p \in Vocabulary}

ClassifierQueries == QueriesOf(MaxPieces)

(***************************************************************************)
(* Calculators.  A context (the keyword arguments handed to a calculator)  *)
(* is a record of its numeric, its string and its dictionary arguments; a  *)
(* dictionary argument is the sequence of its values.                      *)
(***************************************************************************)
NoArgs == [k \in {} |-> 0]

ContextKeys(ctx) == DOMAIN ctx.nums \cup DOMAIN ctx.strs \cup DOMAIN ctx.dicts

\* `if context:` is false for None and for the empty dictionary.
Truthy(ctx) == ContextKeys(ctx) # {}

Raised(err) == [raised |-> TRUE, error |-> err, result |-> NoArgs]
Returned(res) == [raised |-> FALSE, error |-> "", result |-> res]

\* FinancialCalculator.validate_inputs: a negative numeric keyword argument
\* is rejected before the wrapped function is entered.
ValidateInputsRejects(ctx) == \E k \in DOMAIN ctx.nums : ctx.nums[k] < 0

\* Python's binding of keyword arguments to a signature.
Binds(ctx, required, optional) ==
  /\ required \subseteq ContextKeys(ctx)
  /\ ContextKeys(ctx) \subseteq (required \cup optional)

Arg(ctx, k, default) == IF k \in DOMAIN ctx.nums THEN ctx.nums[k] ELSE default

\* The arguments named in `keys` are all numbers.
Numeric(ctx, keys) == ContextKeys(ctx) \cap keys \subseteq DOMAIN ctx.nums

RECURSIVE SumSeq(_)
SumSeq(s) == IF s = <<>> THEN 0 ELSE Head(s) + SumSeq(Tail(s))

\* Variant of calculate_budgeting: expenses are not compared with the income.
calculate_budgeting_unchecked(ctx) ==
  IF ValidateInputsRejects(ctx) THEN Raised("ValueError")
  ELSE IF ~Binds(ctx, {"income", "expenses"}, {"savings_goal"})
       THEN Raised("TypeError")
  ELSE IF "expenses" \notin DOMAIN ctx.dicts THEN Raised("AttributeError")
  ELSE IF "income" \notin DOMAIN ctx.nums THEN Raised("TypeError")
  ELSE IF ctx.nums.income = 0 THEN Raised("ZeroDivisionError")
  ELSE Raised("KeyError")

\* FinancialCalculator.calculate_budgeting.  After the comparison of the
\* expenses with the income the function divides by the income and ends in
\* _generate_budget_recommendations(rule_analysis, ...), which reads
\* ratios["essential_ratio"], a key that rule_analysis does not have.
calculate_budgeting(ctx) ==
  IF ValidateInputsRejects(ctx) THEN Raised("ValueError")
  ELSE IF ~Binds(ctx, {"income", "expenses"}, {"savings_goal"})
       THEN Raised("TypeError")
  ELSE IF "expenses" \notin DOMAIN ctx.dicts THEN Raised("AttributeError")
  ELSE IF "income" \notin DOMAIN ctx.nums THEN Raised("TypeError")
  ELSE LET total_expenses == SumSeq(ctx.dicts.expenses)
           income == ctx.nums.income
       IN  IF total_expenses > income THEN Raised("ValueError")
           ELSE IF income = 0 THEN Raised("ZeroDivisionError")
           ELSE Raised("KeyError")

\* FinancialCalculator.calculate_retirement.  The function evaluates its
\* result dictionary in order and ends in calls of the helper methods
\* _generate_retirement_projection and _assess_retirement_readiness, which
\* the class does not define.
calculate_retirement(ctx) ==
  IF ValidateInputsRejects(ctx) THEN Raised("ValueError")
  ELSE IF ~Binds(ctx, {"current_age", "retirement_age", "current_savings",
                       "monthly_contribution"},
                      {"expected_return", "inflation_rate",
                       "desired_retirement_income"})
       THEN Raised("TypeError")
  ELSE IF DOMAIN ctx.dicts # {} \/ DOMAIN ctx.strs # {} THEN Raised("TypeError")
  ELSE LET years_to_retirement == ctx.nums.retirement_age - ctx.nums.current_age
           expected_return == Arg(ctx, "expected_return", 7)
           inflation_rate == Arg(ctx, "inflation_rate", 3)
           total_contributions ==
             ctx.nums.monthly_contribution * 12 * years_to_retirement
       IN  IF expected_return = inflation_rate
           THEN Raised("ZeroDivisionError")
           ELSE IF ctx.nums.current_savings + total_contributions = 0
                THEN Raised("ZeroDivisionError")
                ELSE Raised("AttributeError")

\* FinancialCalculator._calculate_estate_tax, in fifths of a currency unit
\* (the rate is 0.40 = 2/5).
EstateExemption == 12920000
calculate_estate_tax_fifths(net_estate) ==
  IF net_estate <= EstateExemption THEN 0
  ELSE (net_estate - EstateExemption) * 2

\* FinancialCalculator.calculate_estate_planning (not wrapped by
\* validate_inputs).  Amounts derived from the tax are kept as fractions.
calculate_estate_planning(ctx) ==
  IF ~Binds(ctx, {"assets", "liabilities", "beneficiaries"}, {})
  THEN Raised("TypeError")
  ELSE IF ~({"assets", "liabilities"} \subseteq DOMAIN ctx.dicts)
       THEN Raised("AttributeError")
  ELSE IF "beneficiaries" \notin DOMAIN ctx.nums THEN Raised("TypeError")
  ELSE LET total_assets == SumSeq(ctx.dicts.assets)
           total_liabilities == SumSeq(ctx.dicts.liabilities)
           net_estate == total_assets - total_liabilities
           tax5 == calculate_estate_tax_fifths(net_estate)
           beneficiaries == ctx.nums.beneficiaries
       IN  Returned(
             [total_assets |-> total_assets,
              total_liabilities |-> total_liabilities,
              net_estate |-> net_estate,
              estate_tax |-> [num |-> tax5, den |-> 5],
              per_beneficiary_amount |->
                 IF beneficiaries > 0
                 THEN [num |-> net_estate * 5 - tax5, den |-> 5 * beneficiaries]
                 ELSE [num |-> 0, den |-> 1],
              asset_breakdown |-> ctx.dicts.assets,
              liability_breakdown |-> ctx.dicts.liabilities])

\* FinancialCalculator.calculate_real_estate.  _calculate_mortgage_payment
\* divides by (1 + rate/1200) ** (years * 12) - 1; the result dictionary
\* divides by the property value and by the effective rental income, and
\* ends in a call of _calculate_real_estate_roi, which the class does not
\* define.
calculate_real_estate(ctx) ==
  LET required == {"property_value", "down_payment", "interest_rate",
                   "term_years"}
      optional == {"rental_income", "property_tax_rate", "maintenance_rate",
                   "appreciation_rate", "vacancy_rate", "insurance_cost"}
  IN  IF ValidateInputsRejects(ctx) THEN Raised("ValueError")
      ELSE IF ~Binds(ctx, required, optional) THEN Raised("TypeError")
      ELSE IF ~Numeric(ctx, required) THEN Raised("TypeError")
      ELSE IF ctx.nums.interest_rate = 0 \/ ctx.nums.term_years = 0
           THEN Raised("ZeroDivisionError")
      ELSE IF ~Numeric(ctx, optional) THEN Raised("TypeError")
      ELSE IF ctx.nums.property_value = 0 THEN Raised("ZeroDivisionError")
      ELSE IF Arg(ctx, "rental_income", 0) > 0 /\ Arg(ctx, "vacancy_rate", 0) = 1
           THEN Raised("ZeroDivisionError")
      ELSE Raised("AttributeError")

\* The keys of risk_returns in calculate_investment.
RiskProfiles == {"conservative", "moderate", "aggressive"}

\* FinancialCalculator.calculate_investment: risk_returns[risk_profile],
\* then a call of _calculate_future_value, which the class does not define.
calculate_investment(ctx) ==
  IF ValidateInputsRejects(ctx) THEN Raised("ValueError")
  ELSE IF ~Binds(ctx, {"portfolio_value", "monthly_contribution",
                       "time_horizon"},
                      {"risk_profile", "target_amount"})
       THEN Raised("TypeError")
  ELSE IF "risk_profile" \in DOMAIN ctx.dicts THEN Raised("TypeError")
  ELSE IF "risk_profile" \in DOMAIN ctx.nums THEN Raised("KeyError")
  ELSE IF "risk_profile" \in DOMAIN ctx.strs
          /\ ctx.strs.risk_profile \notin RiskProfiles
       THEN Raised("KeyError")
  ELSE Raised("AttributeError")

\* FinancialCalculator.calculate_tax_planning and
\* calculate_tax_calculation_scenarios (the two bodies are the same): after
\* the two checks the function calls
\* super().calculate_tax_calculation_scenarios, and the class has no base
\* class other than object.
calculate_tax_planning(ctx) ==
  IF ValidateInputsRejects(ctx) THEN Raised("ValueError")
  ELSE IF ~Binds(ctx, {"annual_income"},
                      {"tax_regime", "deductions", "investments"})
       THEN Raised("TypeError")
  ELSE IF "annual_income" \notin DOMAIN ctx.nums THEN Raised("TypeError")
  ELSE IF ctx.nums.annual_income <= 0 THEN Raised("ValueError")
  ELSE IF "tax_regime" \in DOMAIN ctx.nums \cup DOMAIN ctx.dicts
       THEN Raised("ValueError")
  ELSE IF "tax_regime" \in DOMAIN ctx.strs
          /\ ctx.strs.tax_regime \notin {"old", "new"}
       THEN Raised("ValueError")
  ELSE Raised("AttributeError")

\* FinancialCalculator.calculate_insurance: the result dictionary ends in a
\* call of _assess_insurance_risk, which the class does not define.
calculate_insurance(ctx) ==
  LET numbers == {"annual_income", "age", "dependents", "years_income_needed",
                  "current_savings", "total_debt", "education_needs"}
  IN  IF ValidateInputsRejects(ctx) THEN Raised("ValueError")
      ELSE IF ~Binds(ctx, {"annual_income", "age"},
                          (numbers \ {"annual_income", "age"})
                            \cup {"medical_history", "existing_coverage"})
           THEN Raised("TypeError")
      ELSE IF ~Numeric(ctx, numbers) THEN Raised("TypeError")
      ELSE IF "medical_history" \in DOMAIN ctx.dicts THEN Raised("TypeError")
      ELSE Raised("AttributeError")

(***************************************************************************)
(* Helper arithmetic of the calculators.  The program computes with        *)
(* floating-point numbers; a value is kept here as an exact fraction       *)
(* num / den in lowest terms with den > 0, so rounding is not represented. *)
(***************************************************************************)
Abs(n) == IF n < 0 THEN -n ELSE n

RECURSIVE GCD(_, _)
GCD(a, b) == IF b = 0 THEN a ELSE GCD(b, a % b)

\* The number n / d (d # 0).
Frac(n, d) ==
  LET g == GCD(Abs(n), Abs(d))
      s == IF d < 0 THEN -1 ELSE 1
  IN  [num |-> s * (n \div g), den |-> s * (d \div g)]

FracInt(n) == [num |-> n, den |-> 1]

\* a + b, a - b, a * b and a / b (b # 0)
FracAdd(a, b) == Frac(a.num * b.den + b.num * a.den, a.den * b.den)
FracSub(a, b) == Frac(a.num * b.den - b.num * a.den, a.den * b.den)
FracMul(a, b) ==
  LET g1 == GCD(Abs(a.num), b.den)
      g2 == GCD(Abs(b.num), a.den)
  IN  IF a.num = 0 \/ b.num = 0 THEN FracInt(0)
      ELSE Frac((a.num \div g1) * (b.num \div g2),
                (a.den \div g2) * (b.den \div g1))
FracDiv(a, b) == FracMul(a, Frac(b.den, b.num))

\* a ** n for n >= 0; 0 ** 0 is 1, as in Python.
RECURSIVE FracPow(_, _)
FracPow(a, n) == IF n = 0 THEN FracInt(1) ELSE FracMul(a, FracPow(a, n - 1))

FracLess(a, b) == a.num * b.den < b.num * a.den

\* FinancialCalculator._calculate_mortgage_payment: the quotient is a
\* division of floating-point numbers, which raises ZeroDivisionError when
\* the divisor (1 + monthly_rate) ** num_payments - 1 is zero.
calculate_mortgage_payment(principal, rate, years) ==
  LET monthly_rate == Frac(rate, 12 * 100)
      num_payments == years * 12
      growth == FracPow(FracAdd(FracInt(1), monthly_rate), num_payments)
      divisor == FracSub(growth, FracInt(1))
  IN  IF divisor.num = 0 THEN Raised("ZeroDivisionError")
      ELSE Returned(FracDiv(FracMul(FracMul(FracInt(principal), monthly_rate),
                                    growth),
                            divisor))

\* Variant of calculate_surcharge_hundredths: the first tier starts at
\* 5,000,000 itself.
calculate_surcharge_inclusive(income, tax) ==
  IF income >= 5000000 /\ income <= 10000000 THEN tax * 10
  ELSE IF income > 10000000 /\ income <= 20000000 THEN tax * 15
  ELSE IF income > 20000000 /\ income <= 50000000 THEN tax * 25
  ELSE IF income > 50000000 THEN tax * 37
  ELSE 0

\* calculate_surcharge, the function defined inside calculate_tax_planning
\* and inside calculate_tax_calculation_scenarios (the two bodies are the
\* same).  The value is in hundredths: tax * 0.10 is tax * 10 hundredths.
calculate_surcharge_hundredths(income, tax) ==
  IF income > 5000000 /\ income <= 10000000 THEN tax * 10
  ELSE IF income > 10000000 /\ income <= 20000000 THEN tax * 15
  ELSE IF income > 20000000 /\ income <= 50000000 THEN tax * 25
  ELSE IF income > 50000000 THEN tax * 37
  ELSE 0

\* The scenarios s for which FinancialCalculator has a method calculate_<s>.
CalculatorScenarios ==
  {"retirement", "estate_planning", "real_estate", "investment",
   "tax_calculation_scenarios", "tax_planning", "insurance",
   "budgeting", "budget"}

\* getattr(self.financial_calculator, f"calculate_{scenario_type}", None)
\* followed by calc_method(**context), for the scenarios that the
\* classifier can return, and for budgeting.
CallCalculator(scenario_type, ctx) ==
  CASE scenario_type = "retirement" -> calculate_retirement(ctx)
    [] scenario_type = "estate_planning" -> calculate_estate_planning(ctx)
    [] scenario_type = "real_estate" -> calculate_real_estate(ctx)
    [] scenario_type = "investment" -> calculate_investment(ctx)
    [] scenario_type = "tax_planning" -> calculate_tax_planning(ctx)
    [] scenario_type = "tax_calculation_scenarios" -> calculate_tax_planning(ctx)
    [] scenario_type = "insurance" -> calculate_insurance(ctx)
    [] scenario_type = "budgeting" -> calculate_budgeting(ctx)

(***************************************************************************)
(* The engine and its callers.                                             *)
(***************************************************************************)
\* main() builds one RAGEngine and one FinancialAdvisorUI around it; every
\* caller (a browser session of the UI, a test, a script) works on that
\* engine.  Two callers are modelled.
Sessions == {"A", "B"}

\* Questions asked of the engine.
Q_retire == <<"R","e","t","i","r","e","?">>
Q_estate == <<"M","y"," ","w","i","l","l">>

\* The questions of test_scenario_detection.
\* 'How much do I need to retire?'
Q_need_to_retire ==
  <<"H","o","w"," ","m","u","c","h"," ","d","o"," ","I"," ","n","e","e","d",
    " ","t","o"," ","r","e","t","i","r","e","?">>
\* 'Should I invest in stocks?'
Q_invest_in_stocks ==
  <<"S","h","o","u","l","d"," ","I"," ","i","n","v","e","s","t"," ","i","n",
    " ","s","t","o","c","k","s","?">>
\* 'How to manage my debt?'
Q_manage_debt ==
  <<"H","o","w"," ","t","o"," ","m","a","n","a","g","e"," ","m","y"," ","d",
    "e","b","t","?">>
\* 'Help with tax planning'
Q_tax_planning ==
  <<"H","e","l","p"," ","w","i","t","h"," ","t","a","x"," ","p","l","a","n",
    "n","i","n","g">>

\* The question about debt in capitals.
Q_manage_debt_upper ==
  <<"H","O","W"," ","T","O"," ","M","A","N","A","G","E"," ","M","Y"," ","D",
    "E","B","T","?">>

\* The questions of test_retirement_calculation and
\* test_investment_calculation.
\* 'How much will I have at retirement?'
Q_at_retirement ==
  <<"H","o","w"," ","m","u","c","h"," ","w","i","l","l"," ","I"," ","h","a",
    "v","e"," ","a","t"," ","r","e","t","i","r","e","m","e","n","t","?">>
\* 'How should I invest my money?'
Q_invest_money ==
  <<"H","o","w"," ","s","h","o","u","l","d"," ","I"," ","i","n","v","e","s",
    "t"," ","m","y"," ","m","o","n","e","y","?">>

\* The question of examples/test_advisor.py, and a question about a loan.
\* 'I earn 1500000 per annum. Calculate my yearly income tax based on new regime'
Q_income_tax ==
  <<"I"," ","e","a","r","n"," ","1","5","0","0","0","0","0"," ","p","e","r",
    " ","a","n","n","u","m","."," ","C","a","l","c","u","l","a","t","e"," ",
    "m","y"," ","y","e","a","r","l","y"," ","i","n","c","o","m","e"," ","t",
    "a","x"," ","b","a","s","e","d"," ","o","n"," ","n","e","w"," ","r","e",
    "g","i","m","e">>
\* 'How do I pay off my loan?'
Q_pay_off_loan ==
  <<"H","o","w"," ","d","o"," ","I"," ","p","a","y"," ","o","f","f"," ","m",
    "y"," ","l","o","a","n","?">>

\* Contexts handed to query(): none (as the UI does), the invalid context of
\* test_error_handling, an estate-planning context, the contexts of
\* test_retirement_calculation and test_investment_calculation, and a
\* context about a loan.
Context(id) ==
  CASE id = "none" -> [nums |-> NoArgs, strs |-> NoArgs, dicts |-> NoArgs]
    [] id = "bad_age" ->
         [nums |-> [current_age |-> -30, retirement_age |-> 65],
          strs |-> NoArgs, dicts |-> NoArgs]
    [] id = "estate" ->
         [nums |-> [beneficiaries |-> 2], strs |-> NoArgs,
          dicts |-> [assets |-> <<500000, 250000>>,
                     liabilities |-> <<100000>>]]
    [] id = "retirement_test" ->
         [nums |-> [current_age |-> 30, retirement_age |-> 65,
                    current_savings |-> 50000, monthly_contribution |-> 1000],
          strs |-> NoArgs, dicts |-> NoArgs]
    [] id = "investment_test" ->
         [nums |-> [initial_amount |-> 10000, monthly_contribution |-> 500,
                    years |-> 10],
          strs |-> [risk_profile |-> "moderate"], dicts |-> NoArgs]
    [] id = "loan" ->
         [nums |-> [loan_amount |-> 10000, interest_rate |-> 5],
          strs |-> NoArgs, dicts |-> NoArgs]

\* The calls of query(question, context) that callers make.
Requests ==
  {[question |-> Q_estate, context |-> "none"],
   [question |-> Q_retire, context |-> "bad_age"],
   [question |-> Q_estate, context |-> "estate"]}

\* The calls of query() made by the test suite and the example script, the
\* question about debt once more in capitals, and a call about a loan with
\* a context.  Each question comes with one context.
ScriptRequests ==
  {[question |-> Q_need_to_retire, context |-> "none"],
   [question |-> Q_invest_in_stocks, context |-> "none"],
   [question |-> Q_manage_debt, context |-> "none"],
   [question |-> Q_manage_debt_upper, context |-> "none"],
   [question |-> Q_tax_planning, context |-> "none"],
   [question |-> Q_at_retirement, context |-> "retirement_test"],
   [question |-> Q_invest_money, context |-> "investment_test"],
   [question |-> Q_income_tax, context |-> "none"],
   [question |-> Q_pay_off_loan, context |-> "loan"]}

\* What the completion backend and the retriever can answer.
Answers == {<<"o","k">>}
RetrieverResults == {<<"doc1">>}

\* _get_relevant_history reads messages[-4:].
HistoryWindow == 4

VARIABLES
  memory,    \* self.memory.chat_memory.messages
  pc,        \* per caller: where its query() call stands
  cur,       \* per caller: the local variables of its query() call
  obs,       \* per caller: what its call in flight has done (observation)
  outcome,   \* per caller: how its last call ended
  cancelled, \* per caller: its call in flight has been cancelled
  last_op,   \* the operation that took the last step (observation)
  classified, \* the last query given to the classifier alone, and its result
  probe,     \* the last call of a calculator or helper alone, and its result
  ui         \* the user interface: last_response, its outputs, the file served

vars ==
  <<memory, pc, cur, obs, outcome, cancelled, last_op, classified, probe, ui>>

\* The state of the engine and of its callers.
engine_vars == <<memory, pc, cur, obs, outcome, cancelled, last_op>>

NoClassification == [query |-> <<>>, scenario |-> "none"]

NoQuery ==
  [question |-> <<>>, context |-> "none", scenario_type |-> "",
   calculations |-> NoArgs,
   chat_history |-> <<>>, answer |-> <<>>, sources |-> <<>>]

NoObs == [wrote |-> 0, llm_calls |-> 0, retriever_calls |-> 0]

NoOutcome ==
  [status |-> "none", question |-> <<>>, error |-> "", response |-> NoArgs]

NoProbe == [fn |-> "none", args |-> NoArgs, done |-> FALSE, result |-> NoArgs]

\* The interface before any event: the attribute last_response does not
\* exist, nothing has been put on the page, no file has been served.
NoUI == [last_response |-> NoArgs, handled |-> Returned(NoArgs), served |-> "None"]

Init ==
  /\ memory = <<>>
  /\ pc = [t \in Sessions |-> "idle"]
  /\ cur = [t \in Sessions |-> NoQuery]
  /\ obs = [t \in Sessions |-> NoObs]
  /\ outcome = [t \in Sessions |-> NoOutcome]
  /\ cancelled = [t \in Sessions |-> FALSE]
  /\ last_op = "init"
  /\ classified = NoClassification
  /\ probe = NoProbe
  /\ ui = NoUI

InFlight == {t \in Sessions : pc[t] # "idle"}

\* A message of the chat memory.  `by` and `op` record who appended it and
\* through which call; the program does not store them.
Message(role, content, t, op) ==
  [role |-> role, content |-> content, by |-> t, op |-> op]

\* Variant of AddMessage: a memory that keeps a window of the last four
\* messages and drops the oldest one when it is full.
AddMessageWindowed(messages, msg) ==
  IF Len(messages) >= 4 THEN Append(Tail(messages), msg)
  ELSE Append(messages, msg)

\* chat_memory.add_user_message / add_ai_message
AddMessage(messages, msg) == Append(messages, msg)

\* An exception leaves query(): both handlers (the try block of query and
\* the handle_errors decorator) log and re-raise.
Raise(t, question, err) ==
  /\ pc' = [pc EXCEPT ![t] = "idle"]
  /\ cur' = [cur EXCEPT ![t] = NoQuery]
  /\ obs' = [obs EXCEPT ![t] = NoObs]
  /\ outcome' = [outcome EXCEPT ![t] =
        [status |-> "raised", question |-> question, error |-> err,
         response |-> NoArgs]]
  /\ cancelled' = [cancelled EXCEPT ![t] = FALSE]

\* Variant of QueryBegin: the question is recorded in the memory before the
\* calculator runs.
QueryBeginRecordsFirst(t, req) ==
  /\ pc[t] = "idle"
  /\ Len(memory) + 4 * (Cardinality(InFlight) + 1) <= MaxMem
  /\ LET scenario_type == DetectFinancialScenario(req.question)
         context == Context(req.context)
         call == IF Truthy(context) /\ scenario_type \in CalculatorScenarios
                 THEN CallCalculator(scenario_type, context)
                 ELSE Returned(NoArgs)
     IN  /\ last_op' = "query"
         /\ UNCHANGED <<classified, probe, ui>>
         /\ IF call.raised
            THEN /\ memory' = Append(memory,
                        [role |-> "human", content |-> req.question,
                         by |-> t, op |-> "query"])
                 /\ Raise(t, req.question, call.error)
            ELSE /\ memory' = memory
                 /\ pc' = [pc EXCEPT ![t] =
                      IF memory # <<>> THEN "condense" ELSE "retrieve"]
                 /\ cur' = [cur EXCEPT ![t] =
                      [NoQuery EXCEPT !.question = req.question,
                                      !.context = req.context,
                                      !.scenario_type = scenario_type,
                                      !.calculations = call.result,
                                      !.chat_history = memory]]
                 /\ obs' = [obs EXCEPT ![t] = NoObs]
                 /\ outcome' = [outcome EXCEPT ![t] = NoOutcome]
                 /\ cancelled' = cancelled

\* query(), lines 604-617: classification, enrichment and calculation;
\* then self.qa_chain(chain_input) starts: the chain was built with
\* memory=self.memory, so it first loads the chat history from the memory.
QueryBegin(t, req) ==
  /\ pc[t] = "idle"
  /\ Len(memory) + 4 * (Cardinality(InFlight) + 1) <= MaxMem
  /\ LET scenario_type == DetectFinancialScenario(req.question)
         context == Context(req.context)
         call == IF Truthy(context) /\ scenario_type \in CalculatorScenarios
                 THEN CallCalculator(scenario_type, context)
                 ELSE Returned(NoArgs)
     IN  /\ last_op' = "query"
         /\ UNCHANGED <<memory, classified, probe, ui>>
         /\ IF call.raised
            THEN Raise(t, req.question, call.error)
            ELSE /\ pc' = [pc EXCEPT ![t] =
                      IF memory # <<>> THEN "condense" ELSE "retrieve"]
                 /\ cur' = [cur EXCEPT ![t] =
                      [NoQuery EXCEPT !.question = req.question,
                                      !.context = req.context,
                                      !.scenario_type = scenario_type,
                                      !.calculations = call.result,
                                      !.chat_history = memory]]
                 /\ obs' = [obs EXCEPT ![t] = NoObs]
                 /\ outcome' = [outcome EXCEPT ![t] = NoOutcome]
                 /\ cancelled' = cancelled

\* Variant of LLMCall: the question is saved to the memory before the
\* backend is asked, and stays there when the backend fails.
LLMCallSavesFirst(t, stage, next, ok, answer) ==
  /\ pc[t] = stage
  /\ last_op' = "query"
  /\ UNCHANGED <<classified, probe, ui>>
  /\ IF ok
     THEN /\ memory' = memory
          /\ pc' = [pc EXCEPT ![t] = next]
          /\ cur' = [cur EXCEPT ![t].answer = answer,
                                ![t].chat_history = <<>>]
          /\ obs' = [obs EXCEPT ![t].llm_calls = @ + 1]
          /\ UNCHANGED <<outcome, cancelled>>
     ELSE /\ memory' = Append(memory,
                 [role |-> "human", content |-> cur[t].question,
                  by |-> t, op |-> "chain"])
          /\ Raise(t, cur[t].question, "BackendError")

\* FinancialLLM._call: one request to the completion backend; any failure
\* (connection, HTTP status, malformed reply) is printed and re-raised.
LLMCall(t, stage, next, ok, answer) ==
  /\ pc[t] = stage
  /\ last_op' = "query"
  /\ UNCHANGED <<memory, classified, probe, ui>>
  /\ IF ok
     THEN /\ pc' = [pc EXCEPT ![t] = next]
          /\ cur' = [cur EXCEPT ![t].answer = answer,
                                ![t].chat_history = <<>>]
          /\ obs' = [obs EXCEPT ![t].llm_calls = @ + 1]
          /\ UNCHANGED <<outcome, cancelled>>
     ELSE Raise(t, cur[t].question, "BackendError")

\* With a non-empty chat history the chain first asks the backend to
\* rephrase the question in the light of that history.
CondenseQuestion(t, ok) == LLMCall(t, "condense", "retrieve", ok, <<>>)

\* The retriever of the chain (vector store, mmr, k = 5).
Retrieve(t, ok, docs) ==
  /\ pc[t] = "retrieve"
  /\ last_op' = "query"
  /\ UNCHANGED <<memory, classified, probe, ui>>
  /\ IF ok
     THEN /\ pc' = [pc EXCEPT ![t] = "complete"]
          /\ cur' = [cur EXCEPT ![t].sources = docs]
          /\ obs' = [obs EXCEPT ![t].retriever_calls = @ + 1]
          /\ UNCHANGED <<outcome, cancelled>>
     ELSE Raise(t, cur[t].question, "RetrieverError")

\* The answering call of the chain.
Complete(t, ok, answer) == LLMCall(t, "complete", "chain_save_user", ok, answer)

\* memory.save_context(inputs, outputs): the user message, then the AI
\* message, each appended by its own call.
SaveUserMessage(t, stage, next, op) ==
  /\ pc[t] = stage
  /\ memory' = AddMessage(memory, Message("human", cur[t].question, t, op))
  /\ pc' = [pc EXCEPT ![t] = next]
  /\ obs' = [obs EXCEPT ![t].wrote = @ + 1]
  /\ last_op' = "query"
  /\ UNCHANGED <<cur, outcome, cancelled, classified, probe, ui>>

SaveAIMessage(t, stage, next, op) ==
  /\ pc[t] = stage
  /\ memory' = AddMessage(memory, Message("ai", cur[t].answer, t, op))
  /\ pc' = [pc EXCEPT ![t] = next]
  /\ obs' = [obs EXCEPT ![t].wrote = @ + 1]
  /\ last_op' = "query"
  /\ UNCHANGED <<cur, outcome, cancelled, classified, probe, ui>>

\* End of self.qa_chain(chain_input): a chain that owns a memory saves the
\* exchange into it before returning.
ChainSaveUser(t) == SaveUserMessage(t, "chain_save_user", "chain_save_ai", "chain")
ChainSaveAI(t) == SaveAIMessage(t, "chain_save_ai", "save_user", "chain")

\* query(), lines 635-639: self.memory.save_context(...)
SaveUser(t) == SaveUserMessage(t, "save_user", "save_ai", "query")
SaveAI(t) == SaveAIMessage(t, "save_ai", "respond", "query")

\* The scenarios for which VisualizationService.create_visualizations has a
\* drawing method.
VizScenarios ==
  {"retirement", "investment", "budget", "insurance", "real_estate",
   "tax_calculation_scenarios"}

\* What VisualizationService.create_visualizations can do: without a method
\* for the scenario it returns None; a drawing method returns a bundle of
\* figures, returns None, or raises.
VizOutcomes(scenario_type) ==
  IF scenario_type \in VizScenarios THEN {"figures", "None", "raise"}
  ELSE {"None"}

\* RAGEngine._generate_visualizations, given what the service does.
GenerateVisualizations(scenario_type, calculations, out) ==
  IF DOMAIN calculations = {} THEN [called |-> FALSE, failed |-> FALSE, value |-> "None"]
  ELSE IF out = "raise" THEN [called |-> TRUE, failed |-> TRUE, value |-> "None"]
  ELSE [called |-> TRUE, failed |-> FALSE, value |-> out]

\* What ReportService.generate_report can do: write the file and return its
\* path, or raise.
ReportOutcomes == {"report.pdf", "raise"}

\* Variant of GenerateReport: a failure of the service is not caught.
GenerateReportUncaught(calculations, visualizations, out) ==
  IF DOMAIN calculations = {} /\ visualizations = "None"
  THEN [called |-> FALSE, failed |-> FALSE, value |-> "None"]
  ELSE [called |-> TRUE, failed |-> (out = "raise"), value |-> out]

\* Variant of GenerateReport: without figures no report is written.
GenerateReportNeedsFigures(calculations, visualizations, out) ==
  IF visualizations = "None"
  THEN [called |-> FALSE, failed |-> FALSE, value |-> "None"]
  ELSE IF out = "raise" THEN [called |-> TRUE, failed |-> TRUE, value |-> "None"]
  ELSE [called |-> TRUE, failed |-> FALSE, value |-> out]

\* RAGEngine._generate_report, given what the service does.
GenerateReport(calculations, visualizations, out) ==
  IF DOMAIN calculations = {} /\ visualizations = "None"
  THEN [called |-> FALSE, failed |-> FALSE, value |-> "None"]
  ELSE IF out = "raise" THEN [called |-> TRUE, failed |-> TRUE, value |-> "None"]
  ELSE [called |-> TRUE, failed |-> FALSE, value |-> out]

\* The table of _generate_follow_up_questions.  A question is the sequence
\* of the pieces of its text.
base_questions ==
  [retirement |->
     << <<"Would you like to explore how changing your retirement age affects these calculations?">>,
        <<"Should we analyze different investment risk levels for your retirement portfolio?">>,
        <<"Would you like to see how inflation might impact your retirement savings?">> >>,
   investment |->
     << <<"Would you like to see how different asset allocations might affect your returns?">>,
        <<"Should we analyze the tax implications of these investments?">>,
        <<"Would you like to explore different investment timeframes?">> >>,
   debt |->
     << <<"Would you like to see how accelerated payments would affect your debt payoff timeline?">>,
        <<"Should we compare different debt repayment strategies?">>,
        <<"Would you like to analyze debt consolidation options?">> >>,
   tax |->
     << <<"Would you like to explore potential tax deductions you might be eligible for?">>,
        <<"Should we analyze different tax-advantaged investment options?">>,
        <<"Would you like to see how changes in income might affect your tax situation?">> >>,
   insurance |->
     << <<"Would you like to compare different insurance coverage levels?">>,
        <<"Should we analyze how your insurance needs might change over time?">>,
        <<"Would you like to explore other types of insurance coverage?">> >>,
   estate_planning |->
     << <<"Would you like to explore different trust options?">>,
        <<"Should we analyze the tax implications of your estate plan?">>,
        <<"Would you like to review beneficiary designation strategies?">> >>]

\* The list used for a scenario that the table does not have.
default_questions ==
  << <<"Would you like more detailed analysis?">>,
     <<"Should we explore specific aspects of this topic?">>,
     <<"Would you like to see additional calculations?">> >>

\* The two calculation-specific questions.
breakdown_question(scenario_type) ==
  <<"Would you like to see a breakdown of the ", scenario_type, " calculations?">>
projection_question ==
  <<"Would you like to explore different projection scenarios?">>

\* The number of questions returned, follow_ups[:3].
FollowUpLimit == 3

\* Variant of Front: the whole list.
FrontUncut(s, n) == s

\* Python's s[:n].
Front(s, n) == IF Len(s) <= n THEN s ELSE SubSeq(s, 1, n)

\* RAGEngine._generate_follow_up_questions.  The table is built anew in
\* every call, so the appends to one of its lists end with the call.
generate_follow_up_questions(scenario_type, calculations) ==
  LET follow_ups == IF scenario_type \in DOMAIN base_questions
                    THEN base_questions[scenario_type]
                    ELSE default_questions
      with_total == IF "total_amount" \in DOMAIN calculations
                    THEN Append(follow_ups, breakdown_question(scenario_type))
                    ELSE follow_ups
      with_projection == IF "projected_values" \in DOMAIN calculations
                         THEN Append(with_total, projection_question)
                         ELSE with_total
  IN  Front(with_projection, FollowUpLimit)

\* query(), lines 641-665: visualizations, report, and the response
\* dictionary.  viz_out and report_out are what the two services do when
\* they are called.  The chat_history entry of the response is the message
\* list of the memory itself (load_memory_variables hands out the list, not
\* a copy), so it is not a component of the response here; `artifacts`
\* records what happened to the two artifact calls.
Respond(t, viz_out, report_out) ==
  /\ pc[t] = "respond"
  /\ viz_out \in VizOutcomes(cur[t].scenario_type)
  /\ report_out \in ReportOutcomes
  /\ LET viz == GenerateVisualizations(cur[t].scenario_type,
                                       cur[t].calculations, viz_out)
         report == GenerateReport(cur[t].calculations, viz.value, report_out)
     IN  \* an outcome of a service that is not called is immaterial
         /\ viz.called \/ viz_out = "None"
         /\ report.called \/ report_out = "report.pdf"
         /\ outcome' = [outcome EXCEPT ![t] =
              [status |-> "returned", question |-> cur[t].question,
               error |-> "",
               response |->
                 [answer |-> cur[t].answer,
                  sources |-> cur[t].sources,
                  scenario_type |-> cur[t].scenario_type,
                  calculations |-> cur[t].calculations,
                  follow_up_questions |->
                     generate_follow_up_questions(cur[t].scenario_type,
                                                  cur[t].calculations),
                  visualizations |-> viz.value,
                  report_path |-> report.value,
                  is_followup |-> (memory # <<>>),
                  artifacts |-> [viz |-> viz, report |-> report]]]]
  /\ pc' = [pc EXCEPT ![t] = "idle"]
  /\ cur' = [cur EXCEPT ![t] = NoQuery]
  /\ obs' = [obs EXCEPT ![t] = NoObs]
  /\ cancelled' = [cancelled EXCEPT ![t] = FALSE]
  /\ last_op' = "query"
  /\ UNCHANGED <<memory, classified, probe, ui>>

\* The Stop button (cancels=[submit_event]) or a caller giving up on its
\* call.  query() runs synchronously in a worker thread and has no
\* cancellation point, so the call goes on; only its caller stops waiting.
Cancel(t) ==
  /\ pc[t] # "idle"
  /\ ~cancelled[t]
  /\ cancelled' = [cancelled EXCEPT ![t] = TRUE]
  /\ last_op' = "cancel"
  /\ UNCHANGED <<memory, pc, cur, obs, outcome, classified, probe, ui>>

\* Variant of ResetMemory: only the caller's own messages are dropped.
ResetMemoryOwnOnly(t) ==
  /\ memory' = SelectSeq(memory, LAMBDA m : m.by # t)
  /\ last_op' = "reset_memory"
  /\ UNCHANGED <<pc, cur, obs, outcome, cancelled, classified, probe, ui>>

\* RAGEngine.reset_memory, called by t.
ResetMemory(t) ==
  /\ memory' = <<>>
  /\ last_op' = "reset_memory"
  /\ UNCHANGED <<pc, cur, obs, outcome, cancelled, classified, probe, ui>>

\* Variant of LastN: the first n messages, messages[:n].
FirstN(messages, n) ==
  IF Len(messages) <= n THEN messages ELSE SubSeq(messages, 1, n)

\* Python's messages[-n:].
LastN(messages, n) ==
  IF n = 0 \/ Len(messages) <= n THEN messages
  ELSE SubSeq(messages, Len(messages) - n + 1, Len(messages))

\* RAGEngine._get_relevant_history: one line per message of messages[-4:],
\* labelled by its position in the result; the lines are joined by
\* newlines (the empty string when there is none).
get_relevant_history(messages) ==
  LET recent == LastN(messages, HistoryWindow)
  IN  [i \in 1..Len(recent) |->
         [label |-> IF (i - 1) % 2 = 0 THEN "Q:" ELSE "A:",
          content |-> recent[i].content]]

\* RAGEngine._update_scenario_history
update_scenario_history(messages, question, t) ==
  AddMessage(messages, Message("human", question, t, "history"))

\* RAGEngine._manage_conversation_context: builds the context dictionary
\* (with the relevant history read from the memory) and records the question
\* in the memory.  The dictionary goes to the caller and is not kept.
manage_conversation_context(t, question) ==
  /\ pc[t] = "idle"
  /\ Len(memory) + 4 * Cardinality(InFlight) + 1 <= MaxMem
  /\ Cardinality({i \in 1..Len(memory) : memory[i].op = "history"}) < MaxNotes
  /\ memory' = update_scenario_history(memory, question, t)
  /\ last_op' = "manage_conversation_context"
  /\ UNCHANGED <<pc, cur, obs, outcome, cancelled, classified, probe, ui>>

\* The classifier called on its own.
Classify(query) ==
  /\ classified' = [query |-> query,
                    scenario |-> DetectFinancialScenario(query)]
  /\ UNCHANGED <<engine_vars, probe, ui>>

(***************************************************************************)
(* The user interface: FinancialAdvisorUI around the one engine.  Caller   *)
(* "A" is the interface's submit handler.                                  *)
(***************************************************************************)
\* The questions typed into the interface.
UIQueries == {Q_estate, Q_retire}

\* The outputs of the except branch of process_query.
ErrorDisplay ==
  [response_box |-> "Error processing your query. Please try again.",
   calculations_output |-> {},
   plot_output |-> "None",
   follow_up_box |-> <<>>]

\* _format_calculations_for_display: the rows of the table, here the
\* entries of the result that give rise to rows.
format_calculations_for_display(calculations) == DOMAIN calculations

\* The outputs of the try branch of process_query.
Display(response) ==
  [response_box |-> response.answer,
   calculations_output |-> format_calculations_for_display(response.calculations),
   plot_output |-> response.visualizations,
   follow_up_box |-> response.follow_up_questions]

\* process_query up to its call self.rag_engine.query(query): the engine
\* is called with the question alone, never with a context.  The handler
\* is entered once its previous run has ended.
ProcessQueryCall(query) ==
  /\ outcome["A"].status = "none"
  /\ QueryBegin("A", [question |-> query, context |-> "none"])

\* Variant of ProcessQueryEnd: a failed query also discards last_response.
ProcessQueryEndForgetting ==
  /\ pc["A"] = "idle"
  /\ outcome["A"].status # "none"
  /\ ui' = IF outcome["A"].status = "returned"
           THEN [ui EXCEPT !.last_response = outcome["A"].response,
                           !.handled = Returned(Display(outcome["A"].response))]
           ELSE [ui EXCEPT !.last_response = NoArgs,
                           !.handled = Returned(ErrorDisplay)]
  /\ outcome' = [outcome EXCEPT !["A"] = NoOutcome]
  /\ last_op' = "process_query"
  /\ UNCHANGED <<memory, pc, cur, obs, cancelled, classified, probe>>

\* process_query from the return of self.rag_engine.query(query) on: the
\* response is stored in last_response and formatted; any exception of the
\* try block is caught and answered with the fixed outputs.
ProcessQueryEnd ==
  /\ pc["A"] = "idle"
  /\ outcome["A"].status # "none"
  /\ ui' = IF outcome["A"].status = "returned"
           THEN [ui EXCEPT !.last_response = outcome["A"].response,
                           !.handled = Returned(Display(outcome["A"].response))]
           ELSE [ui EXCEPT !.handled = Returned(ErrorDisplay)]
  /\ outcome' = [outcome EXCEPT !["A"] = NoOutcome]
  /\ last_op' = "process_query"
  /\ UNCHANGED <<memory, pc, cur, obs, cancelled, classified, probe>>

\* Variant of ClearInputs: Clear also resets the conversation.
ClearInputsResetting ==
  /\ memory' = <<>>
  /\ ui' = [ui EXCEPT !.last_response = NoArgs]
  /\ last_op' = "clear_inputs"
  /\ UNCHANGED <<pc, cur, obs, outcome, cancelled, classified, probe>>

\* clear_btn.click(fn=self.clear_inputs): clear_inputs returns a dictionary
\* of empty values and touches no attribute; the click has no outputs, so
\* the returned dictionary goes nowhere.
ClearInputs ==
  /\ last_op' = "clear_inputs"
  /\ UNCHANGED <<memory, pc, cur, obs, outcome, cancelled, classified, probe, ui>>

\* download_pdf_report: with a report path in last_response it calls
\* gr.File.update, which exists in some releases of the library only
\* (file_update_works); an exception is caught and None returned.
DownloadPdfReport(file_update_works) ==
  /\ ui' = [ui EXCEPT !.served =
              IF /\ ui.last_response # NoArgs
                 /\ ui.last_response.report_path # "None"
                 /\ file_update_works
              THEN ui.last_response.report_path
              ELSE "None"]
  /\ last_op' = "download_pdf_report"
  /\ UNCHANGED <<memory, pc, cur, obs, outcome, cancelled, classified, probe>>

(***************************************************************************)
(* Calculators and helpers called on their own, on arguments drawn from    *)
(* small sets.                                                             *)
(***************************************************************************)
\* Amounts of money, one of them negative.
Amounts == -1..MaxAmount
Ages == {-1, 0, 30, 65}

\* A record of the given keys (a set of strings) with the given values.
WithOptional(base, extras) == {base} \cup {e @@ base : e \in extras}

NoStrs == NoArgs
NoDicts == NoArgs

\* Dictionaries of at most two amounts, as the sequences of their values.
AmountDicts ==
  {<<>>} \cup {<<a>> : a \in Amounts} \cup {<<a, b>> : a \in Amounts, b \in Amounts}

budgeting_inputs ==
  {[nums |-> n, strs |-> NoStrs, dicts |-> [expenses |-> e]] :
     n \in UNION {WithOptional([income |-> i],
                               {[savings_goal |-> g] : g \in Amounts}) :
                  i \in Amounts},
     e \in AmountDicts}

retirement_inputs ==
  {[nums |-> n, strs |-> NoStrs, dicts |-> NoDicts] :
     n \in UNION {WithOptional(
                    [current_age |-> ca, retirement_age |-> ra,
                     current_savings |-> cs, monthly_contribution |-> mc],
                    {[expected_return |-> 3, inflation_rate |-> 3],
                     [expected_return |-> 2, inflation_rate |-> 3]}) :
                  ca \in Ages, ra \in Ages, cs \in Amounts, mc \in Amounts}}
  \cup {Context("retirement_test"), Context("bad_age")}

estate_planning_inputs ==
  {[nums |-> [beneficiaries |-> b], strs |-> NoStrs,
    dicts |-> [assets |-> a, liabilities |-> l]] :
     b \in {-1, 0, 2},
     a \in {<<x>> : x \in {-500000, 0, 20000000}}
           \cup {<<x, 250000>> : x \in {-500000, 500000, 20000000}},
     l \in {<<>>, <<100000>>}}

real_estate_inputs ==
  {[nums |-> n, strs |-> NoStrs, dicts |-> NoDicts] :
     n \in UNION {WithOptional(
                    [property_value |-> pv, down_payment |-> dp,
                     interest_rate |-> ir, term_years |-> ty],
                    {[rental_income |-> 1000, vacancy_rate |-> 1]}) :
                  pv \in {-1, 0, 300000}, dp \in {-1, 0, 60000},
                  ir \in {-1, 0, 5}, ty \in {0, 30}}}

investment_inputs ==
  {[nums |-> [portfolio_value |-> pv, monthly_contribution |-> mc,
              time_horizon |-> th],
    strs |-> s, dicts |-> NoDicts] :
     pv \in Amounts, mc \in Amounts, th \in {-1, 10},
     s \in {NoStrs, [risk_profile |-> "moderate"],
            [risk_profile |-> "reckless"]}}
  \cup {Context("investment_test")}

tax_planning_inputs ==
  {[nums |-> [annual_income |-> ai], strs |-> s, dicts |-> d] :
     ai \in {-1, 0, 1500000},
     s \in {NoStrs, [tax_regime |-> "new"], [tax_regime |-> "old"],
            [tax_regime |-> "flat"]},
     d \in {NoDicts, [deductions |-> <<150000>>], [deductions |-> <<-1>>]}}

insurance_inputs ==
  {[nums |-> n, strs |-> NoStrs, dicts |-> d] :
     n \in UNION {WithOptional([annual_income |-> ai, age |-> ag],
                               {[dependents |-> -1], [dependents |-> 2]}) :
                  ai \in {-1, 0, 60000}, ag \in {-1, 30, 70}},
     d \in {NoDicts, [existing_coverage |-> <<-1>>]}}

\* The arguments on which the calculator of a scenario is tried.
CalculatorInputs(scenario_type) ==
  CASE scenario_type = "retirement" -> retirement_inputs
    [] scenario_type = "estate_planning" -> estate_planning_inputs
    [] scenario_type = "real_estate" -> real_estate_inputs
    [] scenario_type = "investment" -> investment_inputs
    [] scenario_type = "tax_planning" -> tax_planning_inputs
    [] scenario_type = "tax_calculation_scenarios" -> tax_planning_inputs
    [] scenario_type = "insurance" -> insurance_inputs
    [] scenario_type = "budgeting" -> budgeting_inputs

\* The scenarios that the classifier can return.
ClassifierScenarios ==
  {scenario_keywords[i].scenario : i \in 1..Len(scenario_keywords)}
    \cup {"general"}

\* The calculators that are tried on their own.
ProbedCalculators ==
  (ClassifierScenarios \cap CalculatorScenarios) \cup {"budgeting"}

\* The call calculate_<probe.fn>(**probe.args).
Calculate ==
  /\ probe.fn \in ProbedCalculators
  /\ ~probe.done
  /\ probe' = [probe EXCEPT !.done = TRUE,
                            !.result = CallCalculator(probe.fn, probe.args)]
  /\ UNCHANGED <<engine_vars, classified, ui>>

\* The scenario names and calculation results on which
\* _generate_follow_up_questions is tried.
FollowUpScenarios == ClassifierScenarios \cup {"tax", "budgeting"}
FollowUpCalculations ==
  {NoArgs, [net_estate |-> 650000], [total_amount |-> 1000],
   [projected_values |-> <<1000, 2000>>],
   [total_amount |-> 1000, projected_values |-> <<1000, 2000>>]}

\* The call _generate_follow_up_questions(**probe.args).
SuggestFollowUps ==
  /\ probe.fn = "_generate_follow_up_questions"
  /\ ~probe.done
  /\ probe' = [probe EXCEPT
        !.done = TRUE,
        !.result = generate_follow_up_questions(probe.args.scenario_type,
                                                probe.args.calculations)]
  /\ UNCHANGED <<engine_vars, classified, ui>>

\* The loans on which _calculate_mortgage_payment is tried: an annual rate
\* in percent with a term in years.  1200 % a year is 100 % a month.
RateTerms ==
  {<<0, 0>>, <<0, 1>>, <<0, 2>>, <<1200, 0>>, <<1200, 1>>, <<1200, 2>>,
   <<600, 1>>, <<-1200, 1>>}

mortgage_inputs ==
  {[principal |-> p, rate |-> rt[1], years |-> rt[2]] :
     p \in Amounts, rt \in RateTerms}

\* The call _calculate_mortgage_payment(**probe.args).
MortgagePayment ==
  /\ probe.fn = "_calculate_mortgage_payment"
  /\ ~probe.done
  /\ probe' = [probe EXCEPT
        !.done = TRUE,
        !.result = calculate_mortgage_payment(probe.args.principal,
                                              probe.args.rate,
                                              probe.args.years)]
  /\ UNCHANGED <<engine_vars, classified, ui>>

\* The incomes and taxes on which calculate_surcharge is tried: both sides
\* of every threshold.
SurchargeIncomes ==
  {1, 4999999, 5000000, 5000001, 10000000, 10000001, 20000000, 20000001,
   50000000, 50000001}
surcharge_inputs ==
  {[income |-> i, tax |-> x] : i \in SurchargeIncomes,
                               x \in {0, 100, 1500000} \cup (Amounts \ {-1})}

\* The call calculate_surcharge(**probe.args).
Surcharge ==
  /\ probe.fn = "calculate_surcharge"
  /\ ~probe.done
  /\ probe' = [probe EXCEPT
        !.done = TRUE,
        !.result = Returned(calculate_surcharge_hundredths(probe.args.income,
                                                           probe.args.tax))]
  /\ UNCHANGED <<engine_vars, classified, ui>>

\* FinancialLLM.context_window, the budget handed to the backend, and the
\* number of passages the retriever is asked for.
ContextWindow == 1048
RetrieverK == 5

\* A prompt is kept by the lengths, in tokens, of the parts put into its
\* template: the turns of the chat history, the retrieved passages (most
\* similar first) and the question.  The fixed text of the template is not
\* counted.
PromptLength(prompt) ==
  SumSeq(prompt.chat_history) + SumSeq(prompt.passages) + prompt.question

\* The prompts that one call of the chain built by _create_qa_chain hands
\* to FinancialLLM._call: with a chat history, the prompt of the question
\* generator, holding every turn of the memory and the question; then the
\* "stuff" prompt, holding every retrieved passage and the question (the
\* rewritten one, new_question, when there is a history).  Neither the
\* chain nor _call measures or shortens a prompt, and the calculation text
\* of query() is not a part of either.
qa_chain_prompts(question, chat_history, new_question, passages) ==
  IF chat_history = <<>>
  THEN <<[chat_history |-> <<>>, passages |-> passages, question |-> question]>>
  ELSE <<[chat_history |-> chat_history, passages |-> <<>>,
          question |-> question],
         [chat_history |-> <<>>, passages |-> passages,
          question |-> new_question]>>

\* The questions, histories and retrieved passages on which the chain is
\* tried, by their lengths in tokens.
prompt_inputs ==
  {[question |-> q, chat_history |-> h, new_question |-> 20, passages |-> p] :
     q \in {10, 1100},
     h \in {<<>>, <<100, 100>>, <<600, 300, 100, 100>>},
     p \in {<<>>, [i \in 1..RetrieverK |-> 200], [i \in 1..RetrieverK |-> 400]}}

\* The call self.qa_chain(chain_input) with the retriever's passages and
\* the question generator's answer given: the prompts posted to the backend.
SendPrompts ==
  /\ probe.fn = "qa_chain"
  /\ ~probe.done
  /\ probe' = [probe EXCEPT
        !.done = TRUE,
        !.result = Returned(qa_chain_prompts(probe.args.question,
                                             probe.args.chat_history,
                                             probe.args.new_question,
                                             probe.args.passages))]
  /\ UNCHANGED <<engine_vars, classified, ui>>

\* The calls that are tried.
ProbeCalls ==
  UNION {{[fn |-> s, args |-> ctx, done |-> FALSE, result |-> NoArgs] :
            ctx \in CalculatorInputs(s)} : s \in ProbedCalculators}
  \cup {[fn |-> "_generate_follow_up_questions",
         args |-> [scenario_type |-> s, calculations |-> c],
         done |-> FALSE, result |-> NoArgs] :
           s \in FollowUpScenarios, c \in FollowUpCalculations}
  \cup {[fn |-> "_calculate_mortgage_payment", args |-> a,
         done |-> FALSE, result |-> NoArgs] : a \in mortgage_inputs}
  \cup {[fn |-> "calculate_surcharge", args |-> a,
         done |-> FALSE, result |-> NoArgs] : a \in surcharge_inputs}
  \cup {[fn |-> "qa_chain", args |-> a,
         done |-> FALSE, result |-> NoArgs] : a \in prompt_inputs}

\* A fresh engine, and one call of a calculator or helper to be made.
InitFunctions ==
  /\ memory = <<>>
  /\ pc = [t \in Sessions |-> "idle"]
  /\ cur = [t \in Sessions |-> NoQuery]
  /\ obs = [t \in Sessions |-> NoObs]
  /\ outcome = [t \in Sessions |-> NoOutcome]
  /\ cancelled = [t \in Sessions |-> FALSE]
  /\ last_op = "init"
  /\ classified = NoClassification
  /\ probe \in ProbeCalls
  /\ ui = NoUI

Next ==
  \/ \E t \in Sessions, req \in Requests : QueryBegin(t, req)
  \/ \E t \in Sessions, ok \in BOOLEAN : CondenseQuestion(t, ok)
  \/ \E t \in Sessions, ok \in BOOLEAN, docs \in RetrieverResults :
        Retrieve(t, ok, docs)
  \/ \E t \in Sessions, ok \in BOOLEAN, a \in Answers : Complete(t, ok, a)
  \/ \E t \in Sessions : ChainSaveUser(t)
  \/ \E t \in Sessions : ChainSaveAI(t)
  \/ \E t \in Sessions : SaveUser(t)
  \/ \E t \in Sessions : SaveAI(t)
  \/ \E t \in Sessions, v \in {"figures", "None", "raise"}, r \in ReportOutcomes :
        Respond(t, v, r)
  \/ \E t \in Sessions : Cancel(t)
  \/ \E t \in Sessions : ResetMemory(t)

\* The engine used through query(), reset_memory() and the Stop button.
Spec == Init /\ [][Next]_vars

\* The same, with the engine's internal history helpers also called.
NextInternal ==
  \/ Next
  \/ manage_conversation_context("A", Q_retire)

SpecInternal == Init /\ [][NextInternal]_vars

\* The classifier on its own, over the queries built from the vocabulary.
NextClassify == \E q \in ClassifierQueries : Classify(q)

SpecClassify == Init /\ [][NextClassify]_vars

\* One caller running the calls of the test suite and the example script.
NextScripts ==
  \/ \E req \in ScriptRequests : QueryBegin("A", req)
  \/ \E ok \in BOOLEAN : CondenseQuestion("A", ok)
  \/ \E ok \in BOOLEAN, docs \in RetrieverResults : Retrieve("A", ok, docs)
  \/ \E ok \in BOOLEAN, a \in Answers : Complete("A", ok, a)
  \/ ChainSaveUser("A")
  \/ ChainSaveAI("A")
  \/ SaveUser("A")
  \/ SaveAI("A")
  \/ \E v \in {"figures", "None", "raise"}, r \in ReportOutcomes :
        Respond("A", v, r)

SpecScripts == Init /\ [][NextScripts]_vars

\* The interface: its submit handler "A" with the engine steps of its
\* query, the Clear and Download buttons, and a reset of the memory by
\* another user "B" of the engine.
NextUI ==
  \/ \E q \in UIQueries : ProcessQueryCall(q)
  \/ \E ok \in BOOLEAN : CondenseQuestion("A", ok)
  \/ \E ok \in BOOLEAN, docs \in RetrieverResults : Retrieve("A", ok, docs)
  \/ \E ok \in BOOLEAN, a \in Answers : Complete("A", ok, a)
  \/ ChainSaveUser("A")
  \/ ChainSaveAI("A")
  \/ SaveUser("A")
  \/ SaveAI("A")
  \/ \E v \in {"figures", "None", "raise"}, r \in ReportOutcomes :
        Respond("A", v, r)
  \/ ProcessQueryEnd
  \/ ClearInputs
  \/ \E works \in BOOLEAN : DownloadPdfReport(works)
  \/ ResetMemory("B")

SpecUI == Init /\ [][NextUI]_vars

\* The calculators and the follow-up helper on their own.
NextFunctions ==
  Calculate \/ SuggestFollowUps \/ MortgagePayment \/ Surcharge \/ SendPrompts

SpecFunctions == InitFunctions /\ [][NextFunctions]_vars

(***************************************************************************)
(* Properties.                                                             *)
(***************************************************************************)
IsPrefix(s, u) == Len(s) <= Len(u) /\ SubSeq(u, 1, Len(s)) = s

\* The errors a calculator call can end in.
CalculatorErrors ==
  {"ValueError", "TypeError", "ZeroDivisionError", "AttributeError"}

\* C1: when a completion-backend call made inside query() fails, the call
\* ends by raising, without a response; that step leaves the memory as it
\* is, and the call had appended nothing to it before.
C1_BackendFailureKeepsMemory ==
  [][\A t \in Sessions :
       (pc[t] \in {"condense", "complete"} /\ pc'[t] = "idle")
       => (/\ outcome'[t].status = "raised"
           /\ outcome'[t].error = "BackendError"
           /\ DOMAIN outcome'[t].response = {}
           /\ memory' = memory
           /\ obs[t].wrote = 0)]_vars

\* A query failed at the backend while the memory held the turns of an
\* earlier query.
C1_Witness ==
  \E t \in Sessions :
    /\ outcome[t].status = "raised"
    /\ outcome[t].error = "BackendError"
    /\ Len(memory) >= 4

\* C2: when the selected calculator raises, the call ends in that step with
\* the calculator's error: no retriever call and no backend call has been
\* made, there is no response, and the memory is unchanged.  (A step of
\* query() that moves no caller is a call that ended where it began.)
C2_CalculatorFailureStopsQuery ==
  [][(last_op' = "query" /\ pc' = pc)
       => (/\ memory' = memory
           /\ \E t \in Sessions :
                /\ pc[t] = "idle"
                /\ obs[t] = NoObs /\ obs'[t] = NoObs
                /\ outcome'[t].status = "raised"
                /\ outcome'[t].error \in CalculatorErrors
                /\ DOMAIN outcome'[t].response = {}
                /\ \A u \in Sessions \ {t} : outcome'[u] = outcome[u])]_vars

\* A query with the negative age of test_error_handling was rejected while
\* the memory held earlier turns.
C2_Witness ==
  \E t \in Sessions :
    /\ outcome[t].status = "raised"
    /\ outcome[t].error = "ValueError"
    /\ Len(memory) >= 4

\* C3: once the backend has answered, the call returns a response with the
\* backend's answer and the retrieved sources whatever the visualization
\* and report services do; the field of an artifact whose generation failed
\* is None.
C3_ArtifactFailureIsNotFatal ==
  [][\A t \in Sessions :
       (pc[t] = "respond" /\ pc'[t] # "respond")
       => (/\ outcome'[t].status = "returned"
           /\ outcome'[t].response.answer = cur[t].answer
           /\ outcome'[t].response.answer \in Answers
           /\ outcome'[t].response.sources = cur[t].sources
           /\ outcome'[t].response.sources \in RetrieverResults
           /\ outcome'[t].response.artifacts.viz.failed
                => outcome'[t].response.visualizations = "None"
           /\ outcome'[t].response.artifacts.report.failed
                => outcome'[t].response.report_path = "None")]_vars

\* A query returned although the report service had raised.
C3_Witness ==
  \E t \in Sessions :
    /\ outcome[t].status = "returned"
    /\ outcome[t].response.artifacts.report.called
    /\ outcome[t].response.artifacts.report.failed
    /\ outcome[t].response.report_path = "None"

\* The place of a message within the four that one query appends: the
\* chain's save (human, ai), then query()'s own save (human, ai).
BlockPos(m) ==
  CASE m.op = "chain" /\ m.role = "human" -> 1
    [] m.op = "chain" /\ m.role = "ai" -> 2
    [] m.op = "query" /\ m.role = "human" -> 3
    [] m.op = "query" /\ m.role = "ai" -> 4
    [] OTHER -> 0

\* Two neighbouring messages as queries running one after another leave
\* them: the next message of the same query, or the first of the next.
Follows(a, b) ==
  \/ BlockPos(b) = BlockPos(a) + 1 /\ b.by = a.by
  \/ BlockPos(a) = 4 /\ BlockPos(b) = 1

\* C4: the memory writes of two overlapping query() calls never interleave:
\* the memory is always what queries run one after another leave.
C4_MemoryWritesNeverInterleave ==
  \A i \in 1..(Len(memory) - 1) : Follows(memory[i], memory[i + 1])

\* C5: a session's query never sees turns that another session appended.
C5_MemoryOwnedByOneSession ==
  \A t \in Sessions :
    \A i \in 1..Len(cur[t].chat_history) : cur[t].chat_history[i].by = t

\* C6: a cancelled query appends nothing more to the memory and ends with
\* the timeout error.
C6_CancelledQueryLeavesMemory ==
  [][\A t \in Sessions :
       (cancelled[t] /\ pc'[t] # pc[t])
       => (/\ memory' = memory
           /\ pc'[t] = "idle" => outcome'[t].error = "TimeoutError")]_vars

\* C7: every step other than reset_memory leaves the stored messages in
\* place and at most appends to them.
C7_MemoryAppendOnly ==
  [][last_op' # "reset_memory" => IsPrefix(memory, memory')]_vars

\* The memory has grown past four messages, one of them recorded by
\* _update_scenario_history.
C7_Witness ==
  /\ Len(memory) >= 5
  /\ \E i \in 1..Len(memory) : memory[i].op = "history"

\* C8: right after reset_memory the memory is empty, and reading the recent
\* history, for the window of _get_relevant_history and for any other n,
\* gives nothing.
C8_ResetEmptiesMemory ==
  last_op = "reset_memory"
  => (/\ memory = <<>>
      /\ get_relevant_history(memory) = <<>>
      /\ \A n \in 0..(MaxMem + 1) : LastN(memory, n) = <<>>)

\* reset_memory has just run in a session where one query had succeeded and
\* another had failed.
C8_Witness ==
  /\ last_op = "reset_memory"
  /\ \E t \in Sessions : outcome[t].status = "returned"
  /\ \E t \in Sessions : outcome[t].status = "raised"

\* C9: the recent history holds the last min(4, length) stored messages in
\* their stored order, also when fewer than four or none are stored.
C9_RecentHistoryIsTail ==
  LET h == get_relevant_history(memory)
      n == Len(memory)
      k == IF n < HistoryWindow THEN n ELSE HistoryWindow
  IN  /\ Len(h) = k
      /\ \A i \in 1..k : h[i].content = memory[n - k + i].content

\* The memory holds more than four messages and its first four differ from
\* its last four.
C9_Witness ==
  /\ Len(memory) > HistoryWindow
  /\ \E i \in 1..HistoryWindow :
       memory[i].content # memory[Len(memory) - HistoryWindow + i].content

\* The keyword set of the i-th scenario of the table: the listed keywords,
\* and for the last entry the keywords listed under its sub-scenarios.
ScenarioKeywordSet(i) ==
  IF scenario_keywords[i].scenario = "tax_calculation_scenarios"
  THEN UNION {{tax_calculation_keyword_lists[j][k] :
                  k \in 1..Len(tax_calculation_keyword_lists[j])} :
              j \in 1..Len(tax_calculation_keyword_lists)}
  ELSE {scenario_keywords[i].keywords[j] :
           j \in 1..Len(scenario_keywords[i].keywords)}

\* The scenarios with a keyword of their keyword set in the lower-cased query.
ScenariosMatching(query) ==
  {i \in 1..Len(scenario_keywords) :
     \E kw \in ScenarioKeywordSet(i) : Contains(Lower(query), kw)}

\* C10: the classifier returns the first scenario of the table that has a
\* keyword of its keyword set inside the lower-cased query, and general when
\* no scenario has one.
C10_FirstScenarioWithKeyword ==
  classified.scenario # "none"
  => LET hits == ScenariosMatching(classified.query)
     IN  IF hits = {} THEN classified.scenario = "general"
         ELSE \E i \in hits :
                /\ \A j \in hits : i <= j
                /\ classified.scenario = scenario_keywords[i].scenario

\* C11: classification depends on the query text alone, and not on its
\* letter case: when a caller whose last query returned asks a question
\* that differs from the last one at most in letter case, the new query
\* gets the scenario of the last one, although the memory has grown since.
C11_ClassificationIsPure ==
  [][\A t \in Sessions :
       (/\ pc[t] = "idle" /\ pc'[t] # "idle"
        /\ outcome[t].status = "returned"
        /\ Lower(cur'[t].question) = Lower(outcome[t].question))
       => cur'[t].scenario_type = outcome[t].response.scenario_type]_vars

\* The question about debt is being asked in capitals while the memory
\* holds the turns of the same question in small letters.
C11_Witness ==
  \E t \in Sessions :
    /\ pc[t] # "idle"
    /\ cur[t].question = Q_manage_debt_upper
    /\ cur[t].scenario_type = "debt"
    /\ \E i \in 1..Len(memory) : memory[i].content = Q_manage_debt

\* The query has a keyword that the table lists for the scenario.
Mentions(query, scenario) ==
  \E i \in 1..Len(scenario_keywords) :
    /\ scenario_keywords[i].scenario = scenario
    /\ \E j \in 1..Len(scenario_keywords[i].keywords) :
         Contains(Lower(query), scenario_keywords[i].keywords[j])

\* C12: the response to a query without context has scenario_type
\* retirement when the query mentions retiring, investment when it mentions
\* investing, debt when it mentions debt, and tax when the only keywords in
\* it are tax keywords.
C12_ScenarioOfPlainQuery ==
  [][\A t \in Sessions :
       (pc[t] = "respond" /\ pc'[t] = "idle" /\ cur[t].context = "none")
       => LET q == cur[t].question
              scenario_type == outcome'[t].response.scenario_type
          IN  /\ Mentions(q, "retirement") => scenario_type = "retirement"
              /\ (~Mentions(q, "retirement") /\ Mentions(q, "investment"))
                   => scenario_type = "investment"
              /\ (/\ ~Mentions(q, "retirement")
                  /\ ~Mentions(q, "investment")
                  /\ Mentions(q, "debt"))
                   => scenario_type = "debt"
              /\ (/\ Mentions(q, "tax_planning")
                  /\ \A s \in ClassifierScenarios \ {"tax_planning"} :
                       ~Mentions(q, s))
                   => scenario_type = "tax"]_vars

\* The names under which a tax scenario goes.
TaxScenarios == {"tax", "tax_planning", "tax_calculation_scenarios"}

\* C13: the response to the income-tax question of the example script has
\* a tax scenario as its scenario_type, and calculations with an old_regime
\* and a new_regime entry that each have an effective_tax_rate.
C13_IncomeTaxQueryIsCalculated ==
  [][\A t \in Sessions :
       (pc[t] = "respond" /\ pc'[t] = "idle" /\ cur[t].question = Q_income_tax)
       => LET response == outcome'[t].response
          IN  /\ response.scenario_type \in TaxScenarios
              /\ {"old_regime", "new_regime"}
                   \subseteq DOMAIN response.calculations
              /\ \A r \in {"old_regime", "new_regime"} :
                   "effective_tax_rate"
                     \in DOMAIN response.calculations[r]]_vars

\* The numeric parameters that are counts, not amounts or ages.
CountParameters == {"beneficiaries", "dependents"}

\* An amount or age handed to a calculator is negative.
NegativeAmountOrAge(ctx) ==
  \/ \E k \in DOMAIN ctx.nums \ CountParameters : ctx.nums[k] < 0
  \/ \E k \in DOMAIN ctx.dicts :
       \E i \in 1..Len(ctx.dicts[k]) : ctx.dicts[k][i] < 0

\* C14: a calculator that query() can dispatch to, given a negative amount
\* or age, fails with the validation error and returns no result.
C14_NegativeInputIsRejected ==
  (/\ probe.done
   /\ probe.fn \in ClassifierScenarios \cap CalculatorScenarios
   /\ NegativeAmountOrAge(probe.args))
  => (/\ probe.result.raised
      /\ probe.result.error = "ValueError")

\* C15: every scenario that the classifier can return, other than general,
\* has a calculator, and a query of such a scenario issued with a non-empty
\* context does not return with empty calculations.
C15_EveryScenarioHasCalculator ==
  [][\A t \in Sessions :
       (/\ pc[t] = "respond" /\ pc'[t] = "idle"
        /\ Truthy(Context(cur[t].context))
        /\ cur[t].scenario_type # "general")
       => (/\ cur[t].scenario_type \in CalculatorScenarios
           /\ DOMAIN outcome'[t].response.calculations # {})]_vars

\* The smaller of two numbers.
Min(a, b) == IF a <= b THEN a ELSE b

\* C16: the follow-up questions are the first three (or fewer, if there are
\* fewer) of the list made of the table's list for the scenario, or the
\* default list when the table has none, followed by the
\* calculation-specific questions; the table's lists are as written.
C16_FollowUpsAreFrontOfList ==
  (probe.done /\ probe.fn = "_generate_follow_up_questions")
  => LET scenario_type == probe.args.scenario_type
         calculations == probe.args.calculations
         listed == IF scenario_type \in DOMAIN base_questions
                   THEN base_questions[scenario_type]
                   ELSE default_questions
         specific ==
           (IF "total_amount" \in DOMAIN calculations
            THEN <<breakdown_question(scenario_type)>> ELSE <<>>)
           \o (IF "projected_values" \in DOMAIN calculations
               THEN <<projection_question>> ELSE <<>>)
         all == listed \o specific
     IN  /\ Len(probe.result) <= 3
         /\ Len(probe.result) = Min(3, Len(all))
         /\ \A i \in 1..Len(probe.result) : probe.result[i] = all[i]

\* Questions were produced for a scenario that the table does not have and
\* a calculation result with a total_amount.
C16_Witness ==
  /\ probe.done
  /\ probe.fn = "_generate_follow_up_questions"
  /\ probe.args.scenario_type \notin DOMAIN base_questions
  /\ "total_amount" \in DOMAIN probe.args.calculations
  /\ Len(probe.result) = 3
  /\ probe.result[1] = default_questions[1]

\* The errors of the completion backend and the retriever.
BackendErrors == {"BackendError", "RetrieverError"}

\* C17: the retirement query of test_retirement_calculation, unless the
\* backend or the retriever fails, returns with scenario_type retirement
\* and a total_retirement_savings above 0 in its calculations.
C17_RetirementQuerySucceeds ==
  \A t \in Sessions :
    (outcome[t].status # "none" /\ outcome[t].question = Q_at_retirement)
    => IF outcome[t].status = "raised"
       THEN outcome[t].error \in BackendErrors
       ELSE /\ outcome[t].response.scenario_type = "retirement"
            /\ "total_retirement_savings"
                 \in DOMAIN outcome[t].response.calculations
            /\ outcome[t].response.calculations.total_retirement_savings > 0

\* C18: the investment query of test_investment_calculation, unless the
\* backend or the retriever fails, returns with scenario_type investment
\* and a future_value in its calculations.
C18_InvestmentQuerySucceeds ==
  \A t \in Sessions :
    (outcome[t].status # "none" /\ outcome[t].question = Q_invest_money)
    => IF outcome[t].status = "raised"
       THEN outcome[t].error \in BackendErrors
       ELSE /\ outcome[t].response.scenario_type = "investment"
            /\ "future_value" \in DOMAIN outcome[t].response.calculations

\* C19: calculate_retirement, given non-negative numbers with
\* retirement_age at least current_age, returns a result in which
\* years_to_retirement is retirement_age - current_age and future_value is
\* at least current_savings.
C19_RetirementResult ==
  (/\ probe.done
   /\ probe.fn = "retirement"
   /\ {"current_age", "retirement_age", "current_savings",
       "monthly_contribution"} \subseteq DOMAIN probe.args.nums
   /\ \A k \in DOMAIN probe.args.nums : probe.args.nums[k] >= 0
   /\ probe.args.nums.retirement_age >= probe.args.nums.current_age)
  => (/\ ~probe.result.raised
      /\ probe.result.result.timing.years_to_retirement
           = probe.args.nums.retirement_age - probe.args.nums.current_age
      /\ probe.result.result.savings_analysis.future_value
           >= probe.args.nums.current_savings)

\* C20: calculate_budgeting, given expenses that sum to more than the
\* income, fails with ValueError and returns no result.
C20_ExpensesAboveIncomeAreRejected ==
  (/\ probe.done
   /\ probe.fn = "budgeting"
   /\ SumSeq(probe.args.dicts.expenses) > probe.args.nums.income)
  => (/\ probe.result.raised
      /\ probe.result.error = "ValueError"
      /\ probe.result.result = NoArgs)

\* calculate_budgeting was called with valid numbers and expenses above the
\* income, and raised ValueError.
C20_Witness ==
  /\ probe.done
  /\ probe.fn = "budgeting"
  /\ \A k \in DOMAIN probe.args.nums : probe.args.nums[k] >= 0
  /\ probe.args.nums.income > 0
  /\ SumSeq(probe.args.dicts.expenses) > probe.args.nums.income
  /\ probe.result.raised
  /\ probe.result.error = "ValueError"

\* C21: _calculate_mortgage_payment with rate = 0 (and a term of at least
\* one year) does not divide by zero and returns principal / (years * 12);
\* with a positive rate and a positive principal the payments of the whole
\* term sum to more than the principal.
C21_MortgagePaymentAtZeroRate ==
  (/\ probe.done
   /\ probe.fn = "_calculate_mortgage_payment"
   /\ probe.args.years > 0)
  => /\ probe.args.rate = 0
          => /\ ~probe.result.raised
             /\ probe.result.result
                  = Frac(probe.args.principal, probe.args.years * 12)
     /\ (probe.args.rate > 0 /\ probe.args.principal > 0)
          => /\ ~probe.result.raised
             /\ FracLess(FracInt(probe.args.principal),
                         FracMul(probe.result.result,
                                 FracInt(probe.args.years * 12)))

\* The tiers of the surcharge: the rate in percent for an income above
\* `above` and, where `upto` is not 0, at most `upto`.
SurchargeTiers ==
  <<[above |-> 5000000, upto |-> 10000000, percent |-> 10],
    [above |-> 10000000, upto |-> 20000000, percent |-> 15],
    [above |-> 20000000, upto |-> 50000000, percent |-> 25],
    [above |-> 50000000, upto |-> 0, percent |-> 37]>>

TiersOf(income) ==
  {i \in 1..Len(SurchargeTiers) :
     /\ income > SurchargeTiers[i].above
     /\ SurchargeTiers[i].upto # 0 => income <= SurchargeTiers[i].upto}

IsSuffix(s, u) ==
  /\ Len(s) <= Len(u)
  /\ \A i \in 1..Len(s) : s[i] = u[Len(u) - Len(s) + i]

\* C23: every prompt sent to the backend is within the context budget; it
\* holds the newest turns of the history and the most similar passages,
\* and its question is whole while a turn or a passage is still included.
C23_PromptWithinBudget ==
  (probe.done /\ probe.fn = "qa_chain")
  => \A i \in 1..Len(probe.result.result) :
       LET prompt == probe.result.result[i]
       IN  /\ PromptLength(prompt) <= ContextWindow
           /\ IsSuffix(prompt.chat_history, probe.args.chat_history)
           /\ IsPrefix(prompt.passages, probe.args.passages)
           /\ (prompt.chat_history # <<>> \/ prompt.passages # <<>>)
                => prompt.question \in {probe.args.question,
                                        probe.args.new_question}

\* C24: in a successful query the append to the conversation memory is the
\* last step: the step that changes the memory is the step that ends the
\* call with the composed response.
C24_MemoryUpdateIsLast ==
  [][\A t \in Sessions :
       (memory' # memory /\ pc'[t] # pc[t])
         => (pc'[t] = "idle" /\ outcome'[t].status = "returned")]_vars

\* C25: a successful query() appends exactly two messages to the memory:
\* the question as a user message, then the answer as an assistant
\* message.  (obs counts the messages that the call in flight appended.)
C25_TwoMessagesPerQuery ==
  pc["A"] = "respond"
  => /\ obs["A"].wrote = 2
     /\ memory[Len(memory) - 1].role = "human"
     /\ memory[Len(memory) - 1].content = cur["A"].question
     /\ memory[Len(memory)].role = "ai"
     /\ memory[Len(memory)].content = cur["A"].answer

\* C26: the is_followup flag of a response is true exactly when the memory
\* held messages when the query started, that is, when the memory holds
\* more messages than the returning call itself appended.
C26_FollowUpFlag ==
  [][(pc["A"] = "respond" /\ pc'["A"] = "idle")
       => (outcome'["A"].response.is_followup
             <=> (Len(memory) > obs["A"].wrote))]_vars

InSeq(x, s) == \E i \in 1..Len(s) : s[i] = x

C28_ArtifactsNeedCalculations ==
  [][\A t \in Sessions :
       (pc[t] = "respond" /\ pc'[t] = "idle")
         => LET r == outcome'[t].response
                empty == DOMAIN cur[t].calculations = {}
            IN  /\ (r.artifacts.viz.called \/ r.artifacts.report.called)
                     => ~empty
                /\ (\/ ~Truthy(Context(cur[t].context))
                    \/ cur[t].scenario_type \notin CalculatorScenarios)
                     => empty
                /\ empty => (r.visualizations = "None" /\ r.report_path = "None")
                /\ ~empty => r.artifacts.report.called]_vars

\* A query returned a calculation result for which the visualization
\* service gave nothing, and the report was written all the same.
C28_Witness ==
  \E t \in Sessions :
    /\ outcome[t].status = "returned"
    /\ DOMAIN outcome[t].response.calculations # {}
    /\ outcome[t].response.artifacts.viz.called
    /\ outcome[t].response.visualizations = "None"
    /\ outcome[t].response.artifacts.report.called
    /\ outcome[t].response.report_path = "report.pdf"

\* C29: process_query never raises; when the engine's query() failed it
\* returns the fixed error outputs and leaves last_response as it was, and
\* Download Report serves nothing but the report path of last_response.
C29_FailedQueryKeepsLastResponse ==
  [][/\ ~ui'.handled.raised
     /\ (last_op' = "process_query" /\ outcome["A"].status = "raised")
          => /\ ui'.handled = Returned(ErrorDisplay)
             /\ ui'.last_response = ui.last_response
     /\ last_op' = "download_pdf_report"
          => /\ ui'.last_response = ui.last_response
             /\ ui'.served # "None"
                  => ui'.served = ui.last_response.report_path]_vars

\* A query failed after an earlier one had succeeded: the page shows the
\* error outputs and last_response is still that of the earlier query.
C29_Witness ==
  /\ last_op = "process_query"
  /\ ui.handled = Returned(ErrorDisplay)
  /\ ui.last_response # NoArgs
  /\ ui.last_response.answer = <<"o", "k">>

\* C30: Clear changes neither the conversation memory nor last_response,
\* and no step other than reset_memory empties a memory that holds
\* messages.
C30_ClearKeepsMemory ==
  [][/\ last_op' = "clear_inputs"
          => /\ memory' = memory
             /\ ui'.last_response = ui.last_response
     /\ (memory # <<>> /\ memory' = <<>>) => last_op' = "reset_memory"]_vars

\* Clear was pressed with messages in the memory and a response stored.
C30_Witness ==
  /\ last_op = "clear_inputs"
  /\ memory # <<>>
  /\ ui.last_response # NoArgs

====
